---- MODULE Spec2Model ----
(***************************************************************************)
(* Model of setup_cli.py: a provisioning script that runs eleven installer *)
(* steps in a fixed order, every external command going through run().     *)
(*                                                                         *)
(* Text is modelled at word granularity: a Python string is the sequence   *)
(* of the pieces it yields when split on single spaces, so string          *)
(* concatenation with separating spaces is sequence concatenation.  The    *)
(* SHELL variable and captured output, whose characters matter, are        *)
(* sequences of characters.  The empty string is << >>.                    *)
(***************************************************************************)
EXTENDS Integers, Sequences, FiniteSets, TLC

VARIABLES
    host,        \* facts the probes read: <<kind, name>> pairs present on the machine
    env_shell,   \* os.environ.get("SHELL"): a character sequence, or None
    user_secret, \* what the operator types at the getpass prompt
    runs_left,   \* how many more times the operator re-runs the script
    status,      \* "idle" | "running" | "exited" | "finished"
    exit_code,   \* process exit status of the last run (-1 while none)
    pc,          \* index of the next installer step of the top-level sequence
    dry_run,     \* args.dry_run
    password,    \* user_password
    issued,      \* commands passed to run() by the last action, in order
    executed,    \* subprocess.run invocations of the current script run, in order
    out,         \* lines printed by the last action
    ret,         \* what the last run() call returned to its caller
    captured,    \* result.stdout of the last subprocess.run of the last action
    host0,       \* the host before the first run
    pre_host,    \* the host as the last action found it
    done,        \* commands that have exited 0, over all runs
    prev_ok      \* the previous run was a real run that reached the end

vars == <<host, env_shell, user_secret, runs_left, status, exit_code, pc, dry_run,
          password, issued, executed, out, ret, captured, host0, pre_host, done, prev_ok>>

----------------------------------------------------------------------------
(* Bounds *)

MaxRuns == 2     \* script runs per behaviour in the re-run specification
MaxCalls == 16   \* the failing run() call of a step is one of its first MaxCalls calls

----------------------------------------------------------------------------
(* Values *)

None == <<"<None>">>

Truthy(s) == s # None /\ s # << >>

Secrets == { <<"hunter2">>, <<"p", "", "w">>, << >> }

Chars(w) ==
    CASE w = "/bin/bash" -> <<"/", "b", "i", "n", "/", "b", "a", "s", "h">>
      [] w = "/bin/zsh" -> <<"/", "b", "i", "n", "/", "z", "s", "h">>
      [] w = "zsh" -> <<"z", "s", "h">>
      [] w = "/bin/zsh5" -> <<"/", "b", "i", "n", "/", "z", "s", "h", "5">>
      [] w = "sh" -> <<"s", "h">>

ShellValues == { None, << >>, Chars("/bin/bash"), Chars("/bin/zsh"), Chars("zsh"),
                 Chars("/bin/zsh5"), Chars("sh") }

Whitespace == { " ", "\n" }

Stdouts == { << >>, <<" ", "ok", "\n">>, <<"\n">> }

Stderrs == { <<"E:">> }

FailCodes == { 1, 100 }

----------------------------------------------------------------------------
(* Text helpers *)

Last(s) == s[Len(s)]

StartsWith(s, prefix) ==
    Len(s) >= Len(prefix) /\ SubSeq(s, 1, Len(prefix)) = prefix

EndsWith(s, suffix) ==
    Len(s) >= Len(suffix) /\ SubSeq(s, Len(s) - Len(suffix) + 1, Len(s)) = suffix

\* needle occurs in s as a contiguous run of pieces
Contains(s, needle) ==
    \E i \in 1..(Len(s) + 1) :
        i + Len(needle) - 1 <= Len(s) /\ SubSeq(s, i, i + Len(needle) - 1) = needle

RECURSIVE LStrip(_)
LStrip(s) == IF s # << >> /\ Head(s) \in Whitespace THEN LStrip(Tail(s)) ELSE s

RECURSIVE RStrip(_)
RStrip(s) ==
    IF s # << >> /\ Last(s) \in Whitespace THEN RStrip(SubSeq(s, 1, Len(s) - 1)) ELSE s

\* str.strip()
Strip(s) == RStrip(LStrip(s))

\* the pieces of s between occurrences of sep
RECURSIVE SplitOn(_, _)
SplitOn(s, sep) ==
    IF \E i \in 1..Len(s) : s[i] = sep
    THEN LET i == CHOOSE k \in 1..Len(s) : s[k] = sep /\ \A j \in 1..(k - 1) : s[j] # sep
         IN  <<SubSeq(s, 1, i - 1)>> \o SplitOn(SubSeq(s, i + 1, Len(s)), sep)
    ELSE <<s>>

----------------------------------------------------------------------------
(* Paths and commands of the script *)

plugins_dir == "~/.oh-my-zsh/custom/plugins"
p10k_dir == "~/.oh-my-zsh/custom/themes/powerlevel10k"
fzf_dir == "~/.fzf"
NVM_SH == "~/.nvm/nvm.sh"
dotfiles_path == "<script_dir>/dotfiles"
nvim_config_target_dir == "~/.config/nvim"
software_dir == "~/software"
nvim_appimage_path == "~/software/nvim"
font_dir == "~/.local/share/fonts/MesloLGS NF"
cwd == "<cwd>"

plugins_to_install ==
    << [name |-> "zsh-syntax-highlighting",
        url |-> "https://github.com/zsh-users/zsh-syntax-highlighting.git"],
       [name |-> "zsh-autosuggestions",
        url |-> "https://github.com/zsh-users/zsh-autosuggestions"],
       [name |-> "zsh-vi-mode", url |-> "https://github.com/jeffreytse/zsh-vi-mode.git"] >>

\* each file name as its pieces between spaces
font_files ==
    << <<"MesloLGS", "NF", "Regular.ttf">>, <<"MesloLGS", "NF", "Bold.ttf">>,
       <<"MesloLGS", "NF", "Italic.ttf">>, <<"MesloLGS", "NF", "Bold", "Italic.ttf">> >>

base_url == "https://github.com/romkatv/powerlevel10k-media/raw/master/"

\* the pieces of a text joined by sep: "a b".replace(" ", sep)
RECURSIVE Join(_, _)
Join(words, sep) ==
    IF Len(words) = 0 THEN ""
    ELSE IF Len(words) = 1 THEN words[1]
    ELSE words[1] \o sep \o Join(Tail(words), sep)

\* os.path.join(font_dir, font_file)
destination_path(font_file) == font_dir \o "/" \o Join(font_file, " ")

cargo_programs ==
    << [package |-> "exa", command |-> "exa"],
       [package |-> "bottom", command |-> "btm"],
       [package |-> "watchexec-cli", command |-> "watchexec"],
       [package |-> "bat", command |-> "bat"],
       [package |-> "fd-find", command |-> "fd"],
       [package |-> "ripgrep", command |-> "rg"],
       [package |-> "tree-sitter-cli", command |-> "tree-sitter"],
       [package |-> "trunk", command |-> "trunk"],
       [package |-> "difftastic", command |-> "difft"] >>

apt_programs ==
    << "wl-clipboard", "cmatrix", "neofetch", "htop", "tree", "python3-pip", "python3-venv" >>

CmdHello == <<"echo", "'Hello", "from", "run", "function!'">>
CmdRustup ==
    <<"curl", "--proto", "'=https'", "--tlsv1.2", "-sSf", "https://sh.rustup.rs", "|",
      "sh", "-s", "--", "-y">>
CmdApt(pkg) == <<"sudo", "apt", "update", "&&", "sudo", "apt", "install", "-y", pkg>>
CmdOhMyZsh ==
    <<"sh", "-c", "\"$(curl", "-fsSL",
      "https://raw.github.com/ohmyzsh/ohmyzsh/master/tools/install.sh)\"", "\"\"",
      "--unattended">>
CmdChsh == <<"chsh", "-s", "$(which", "zsh)">>
CmdMkdir(path) == <<"mkdir", "-p", path>>
CmdClone(depth, url, path) == <<"git", "clone">> \o depth \o <<url, path>>
CmdFzfInstall ==
    <<"~/.fzf/install", "--key-bindings", "--completion", "--no-update-rc">>
CmdNvmSetup ==
    <<"curl", "-o-", "https://raw.githubusercontent.com/nvm-sh/nvm/v0.39.7/install.sh",
      "|", "bash">>
NVM_SOURCE_CMD ==
    <<"export", "NVM_DIR=\"~/.nvm\"", "&&", "[", "-s", "\"~/.nvm/nvm.sh\"", "]", "&&",
      ".", "\"~/.nvm/nvm.sh\"", "&&">>
CmdNvmInstall == NVM_SOURCE_CMD \o <<"nvm", "install", "--lts">>
CmdNvmUse == NVM_SOURCE_CMD \o <<"nvm", "use", "--lts">>
CmdNpmGemini == NVM_SOURCE_CMD \o <<"npm", "install", "-g", "@google/gemini-cli">>
CmdStow(target, package) == <<"stow", "-R", "-t", target, package>>
CmdNvimDownload ==
    <<"curl", "-L",
      "https://github.com/neovim/neovim/releases/latest/download/nvim-linux-x86_64.appimage",
      "-o", nvim_appimage_path>>
CmdChmod == <<"chmod", "+x", nvim_appimage_path>>
CmdMkdirFont == <<"mkdir", "-p", "\"~/.local/share/fonts/MesloLGS", "NF\"">>
CmdFontDownload(font_file) ==
    <<"curl", "-L", "'" \o base_url \o Join(font_file, "%20") \o "'", "-o">>
    \o <<"\"~/.local/share/fonts/MesloLGS", "NF/" \o Head(font_file)>>
    \o SubSeq(font_file, 2, Len(font_file) - 1) \o <<Last(font_file) \o "\"">>
CmdFcCache == <<"fc-cache", "-fv">>
CmdGetDocker == <<"curl", "-fsSL", "https://get.docker.com", "-o", "/tmp/get-docker.sh">>
CmdShDocker == <<"sudo", "sh", "/tmp/get-docker.sh">>
CmdRmDocker == <<"rm", "/tmp/get-docker.sh">>
CmdUsermod == <<"sudo", "usermod", "-aG", "docker", "$USER">>
CmdCargo(package) == <<"cargo", "install", package>>

----------------------------------------------------------------------------
(* The host: what the probes read and what a command that exits 0 leaves behind *)

Path(p) == <<"path", p>>
Cmd(c) == <<"cmd", c>>

\* commands the Debian package of that name puts on the search path
AptProvides(pkg) ==
    CASE pkg = "wl-clipboard" -> { "wl-copy", "wl-paste" }
      [] pkg = "python3-pip" -> { "pip3" }
      [] pkg = "python3-venv" -> { }
      [] OTHER -> { pkg }

\* the host after `command` has exited 0
Effect(h, command) ==
    LET c == command IN
    CASE c = CmdRustup -> h \cup { <<"cargobin", "rustc">>, <<"cargobin", "cargo">> }
      [] c[1] = "sudo" /\ c[2] = "apt" -> h \cup { Cmd(x) : x \in AptProvides(Last(c)) }
      [] c = CmdOhMyZsh -> h \cup { Path("~/.oh-my-zsh") }
      [] c = CmdChsh -> h \cup { <<"login_shell", "zsh">> }
      [] c[1] = "mkdir" /\ c = CmdMkdirFont -> h \cup { Path(font_dir) }
      [] c[1] = "mkdir" /\ c = CmdMkdir(plugins_dir) ->
            h \cup { Path(plugins_dir), Path("~/.oh-my-zsh") }
      [] c[1] = "mkdir" /\ c # CmdMkdirFont /\ c # CmdMkdir(plugins_dir) ->
            h \cup { Path(Last(c)) }
      [] c[1] = "git" -> h \cup { Path(Last(c)) }
      [] c = CmdFzfInstall -> h \cup { <<"configured", "fzf">> }
      [] c = CmdNvmSetup -> h \cup { Path(NVM_SH) }
      [] c = CmdNvmInstall -> h \cup { <<"node", "lts">> }
      [] c = CmdNpmGemini -> h \cup { <<"nvmbin", "gemini">> }
      [] c[1] = "stow" -> h \cup { <<"stowed", Last(c)>> }
      [] c = CmdNvimDownload -> h \cup { Path(nvim_appimage_path) }
      [] c = CmdChmod -> h \cup { <<"executable", nvim_appimage_path>> }
      [] c[1] = "curl" /\ c[2] = "-L" /\ c # CmdNvimDownload ->
            h \cup { Path(destination_path(f)) :
                       f \in { g \in { font_files[i] : i \in 1..Len(font_files) } :
                                 CmdFontDownload(g) = c } }
      [] c = CmdFcCache -> h \cup { <<"cached", "fonts">> }
      [] c = CmdGetDocker -> h \cup { Path("/tmp/get-docker.sh") }
      [] c = CmdShDocker -> h \cup { Cmd("docker") }
      [] c = CmdRmDocker -> h \ { Path("/tmp/get-docker.sh") }
      [] c = CmdUsermod -> h \cup { <<"etc_group", "docker">> }
      [] c[1] = "cargo" ->
            h \cup { <<"cargobin", cargo_programs[i].command>> : i \in
                       { j \in 1..Len(cargo_programs) : cargo_programs[j].package = Last(c) } }
      [] OTHER -> h

\* command -v: a name on the search path of the script's process; ~/.cargo/bin and
\* nvm's bin directory are on it only if the environment the script was started
\* from has them (the script never changes os.environ)
is_command_available(h, command) ==
    \/ Cmd(command) \in h
    \/ <<"cargobin", command>> \in h /\ <<"on_path", "~/.cargo/bin">> \in h
    \/ <<"nvmbin", command>> \in h /\ <<"on_path", "nvm">> \in h

exists(h, p) == Path(p) \in h
isdir(h, p) == Path(p) \in h
access_X_OK(h, p) == <<"executable", p>> \in h
in_docker_group(h) == <<"groups", "docker">> \in h

----------------------------------------------------------------------------
(* The Command Runner *)

\* A machine value m is the process state threaded through a function body:
\*   host, issued, executed, out, ret, captured, done, status, exit_code as the
\*   variables;
\*   n: subprocess.run invocations made so far by the current action;
\*   o: what the outside world answers during the current action
\*      (failAt: which invocation exits non-zero, 0 for none; rc: its status;
\*       so, se: the captured streams of every invocation).

print(m, fd, text) ==
    IF m.status # "running" THEN m
    ELSE [m EXCEPT !.out = Append(@, [fd |-> fd, text |-> text])]

\* sys.exit(code)
sys_exit(m, code) ==
    IF m.status # "running" THEN m
    ELSE [m EXCEPT !.status = "exited", !.exit_code = code]

\* the shell cannot start a program that is not on the search path
CommandNotFound(h, command) == command[1] = "cargo" /\ ~is_command_available(h, "cargo")

\* a handler that reports the failure and returns to the caller
run_failed_returns(m, error_message, cmd, returncode, stdout, stderr) ==
    print(m, "stderr",
          <<"Command '">> \o cmd \o <<"' failed with exit code", ToString(returncode)>>)

\* lines 41-49: the CalledProcessError handler
run_failed(m, error_message, cmd, returncode, stdout, stderr) ==
    LET m1 == IF error_message # None
              THEN print(m, "stderr", <<"Error:">> \o error_message)
              ELSE m
        m2 == print(m1, "stderr",
                    <<"Command '">> \o cmd \o <<"' failed with exit code", ToString(returncode)>>)
        m3 == IF stdout # << >> THEN print(m2, "stderr", <<"Stdout:">> \o Strip(stdout)) ELSE m2
        m4 == IF stderr # << >> THEN print(m3, "stderr", <<"Stderr:">> \o Strip(stderr)) ELSE m3
    IN  sys_exit(m4, 1)

\* a success branch that hands the raw output back instead of printing it
run_succeeded_returns_stdout(m, stdout) == [m EXCEPT !.ret = stdout]

\* lines 38-40: the command exited 0
run_succeeded(m, stdout) ==
    LET m1 == IF stdout # << >> THEN print(m, "stdout", Strip(stdout)) ELSE m
    IN  [m1 EXCEPT !.ret = None]

\* a dry-run branch that prints and then falls through to the execution
run_dry_falls_through(m, command, dir_path) ==
    LET m1 == print(m, "stdout", <<"[Dry Run] Would execute:">> \o command)
    IN  [m1 EXCEPT !.ret = None, !.host = Effect(@, command),
                   !.executed = Append(@, [cmd |-> command, input |-> None,
                                           cwd |-> dir_path, rc |-> 0])]

\* lines 20-22
run_dry(m, command, dir_path) ==
    LET m1 == print(m, "stdout",
                    <<"[Dry Run] Would execute:">> \o command
                    \o <<"in">> \o (IF dir_path # None THEN dir_path ELSE <<cwd>>))
    IN  [m1 EXCEPT !.ret = None]

\* lines 24-30: the command line and the standard input handed to subprocess.run
run_command(command, pw) ==
    IF Truthy(pw) /\ StartsWith(command, <<"sudo">>)
    THEN <<"echo">> \o pw \o <<"|", "sudo", "-S">> \o command
    ELSE command

run_input(command, pw) ==
    IF Truthy(pw) /\ StartsWith(command, <<"sudo">>) THEN None
    ELSE IF Truthy(pw) /\ Contains(command, <<"chsh">>) THEN pw \o <<"\n">>
    ELSE None

run(m, command, error_message, dry, pw, dir_path) ==
    IF m.status # "running" THEN m
    ELSE
    LET m0 == [m EXCEPT !.issued = Append(@, command)] IN
    IF dry THEN run_dry(m0, command, dir_path)
    ELSE
    LET k == m0.n + 1
        cmd == run_command(command, pw)
        process_input == run_input(command, pw)
        notfound == CommandNotFound(m0.host, command)
        returncode == IF notfound THEN 127 ELSE IF k = m0.o.failAt THEN m0.o.rc ELSE 0
        m1 == [m0 EXCEPT !.n = k,
                         !.executed = Append(@, [cmd |-> cmd, input |-> process_input,
                                                 cwd |-> dir_path, rc |-> returncode]),
                         !.captured = m0.o.so]
    IN  IF returncode = 0
        THEN run_succeeded([m1 EXCEPT !.host = Effect(@, command),
                                      !.done = @ \cup {command}], m0.o.so)
        ELSE run_failed(m1, error_message, cmd, returncode, m0.o.so, m0.o.se)

----------------------------------------------------------------------------
(* What the shell of subprocess.run(cmd, shell=True, input=...) does with standard  *)
(* input: an and-list runs its pipelines one after the other; the first program of  *)
(* a pipeline reads the input of the shell itself, every later one the output of    *)
(* the program before it.                                                           *)

NoInput == <<"<nothing>">>

\* what a program writes to its standard output, where the model knows it: echo
\* writes its arguments, as the shell split them into words, joined by single
\* spaces, and a newline
ProgramOutput(argv) ==
    IF argv # << >> /\ argv[1] = "echo"
    THEN SelectSeq(Tail(argv), LAMBDA w : w # "") \o <<"\n">>
    ELSE <<"<output of>">> \o argv

\* the programs the command line starts, in order, each with what it reads
ShellStdin(cmd, input) ==
    LET pipelines == SplitOn(cmd, "&&")
        stages(p) == SplitOn(pipelines[p], "|")
        reads(p, j) ==
            IF j = 1 THEN (IF input = None THEN NoInput ELSE input)
            ELSE ProgramOutput(stages(p)[j - 1])
    IN  UNION { { [argv |-> stages(p)[j], stdin |-> reads(p, j), pipeline |-> p, stage |-> j] :
                    j \in 1..Len(stages(p)) } : p \in 1..Len(pipelines) }

\* the programs that ask for the user's credential
AsksCredential(argv) == argv # << >> /\ argv[1] \in { "sudo", "chsh" }

----------------------------------------------------------------------------
(* Installer steps *)

\* print(text) to standard output
say(m, text) == print(m, "stdout", <<text>>)

install_rust(m, dry, pw) ==
    LET m1 == say(m, "--- Installing Rust ---") IN
    IF is_command_available(m1.host, "rustc")
    THEN say(m1, "Rust is already installed.")
    ELSE LET m2 == say(m1, "Downloading and installing Rust...")
             m3 == run(m2, CmdRustup, <<"Failed to install Rust.">>, dry, pw, None)
         IN  say(m3, "Rust installation command issued.")

\* a check that compares SHELL with one full path instead of its ending
set_default_shell_exact(m, current_shell, dry, pw) ==
    IF current_shell # Chars("/bin/zsh")
    THEN LET m2 == run(m, CmdChsh, <<"Failed to set Zsh as default shell.">>, dry, pw, None)
         IN  IF ~dry THEN say(m2, "IMPORTANT: Zsh has been set as your default shell.") ELSE m2
    ELSE say(m, "Zsh is already the default shell.")

\* lines 93-106: Set Zsh as default shell if not already
set_default_shell(m, current_shell, dry, pw) ==
    IF ~Truthy(current_shell) \/ ~EndsWith(current_shell, Chars("zsh"))
    THEN LET m1 == say(m, "Setting Zsh as default shell...")
             m2 == run(m1, CmdChsh, <<"Failed to set Zsh as default shell.">>, dry, pw, None)
         IN  IF ~dry
             THEN say(say(m2, "IMPORTANT: Zsh has been set as your default shell."),
                      "For this change to take full effect, you MUST log out of your current session")
             ELSE m2
    ELSE say(m, "Zsh is already the default shell.")

setup_oh_my_zsh(m, current_shell, dry, pw) ==
    LET m1 == say(m, "--- Setting up Oh My Zsh ---")
        m2 == IF ~is_command_available(m1.host, "zsh")
              THEN run(say(m1, "Zsh not found. Installing Zsh..."), CmdApt("zsh"),
                       <<"Failed to install Zsh.">>, dry, pw, None)
              ELSE say(m1, "Zsh is already installed.")
        m3 == IF exists(m2.host, "~/.oh-my-zsh")
              THEN say(m2, "Oh My Zsh is already installed.")
              ELSE say(run(say(m2, "Installing Oh My Zsh..."), CmdOhMyZsh,
                           <<"Failed to install Oh My Zsh.">>, dry, pw, None),
                       "Oh My Zsh installation command issued.")
    IN  set_default_shell(m3, current_shell, dry, pw)

install_gemini_cli(m, dry, pw) ==
    LET m1 == say(m, "--- Setting up Gemini CLI ---")
        m2 == IF ~exists(m1.host, NVM_SH)
              THEN LET a == run(say(m1, "NVM not found. Installing NVM..."), CmdNvmSetup,
                                <<"Failed to install NVM.">>, dry, None, None)
                   IN  IF ~dry THEN say(a, "NVM installation command issued.") ELSE a
              ELSE say(m1, "NVM is already installed.")
        m3 == run(say(m2, "Installing Node.js (LTS) using NVM..."), CmdNvmInstall,
                  <<"Failed to install Node.js LTS.">>, dry, None, None)
        m4 == run(say(m3, "Setting Node.js (LTS) as default using NVM..."), CmdNvmUse,
                  <<"Failed to set Node.js LTS as default.">>, dry, None, None)
        m5 == say(m4, "Installing @google/gemini-cli globally...")
    IN  IF is_command_available(m5.host, "gemini")
        THEN say(m5, "@google/gemini-cli is already installed.")
        ELSE say(run(m5, CmdNpmGemini, <<"Failed to install @google/gemini-cli.">>,
                     dry, None, None),
                 "Gemini CLI setup command issued.")

install_stow(m, dry, pw) ==
    LET m1 == say(m, "--- Installing GNU Stow ---") IN
    IF is_command_available(m1.host, "stow")
    THEN say(m1, "GNU Stow is already installed.")
    ELSE say(run(say(m1, "Installing GNU Stow..."), CmdApt("stow"),
                 <<"Failed to install GNU Stow.">>, dry, pw, None),
             "GNU Stow installation command issued.")

install_powerlevel10k(m, dry, pw) ==
    LET m1 == say(m, "--- Installing Powerlevel10k ---") IN
    IF exists(m1.host, p10k_dir)
    THEN say(m1, "Powerlevel10k is already installed.")
    ELSE say(run(say(m1, "Cloning Powerlevel10k repository..."),
                 CmdClone(<<"--depth=1">>, "https://github.com/romkatv/powerlevel10k.git",
                          p10k_dir),
                 <<"Failed to clone Powerlevel10k repository.">>, dry, pw, None),
             "Powerlevel10k cloning command issued.")

\* lines 191-199: the loop over plugins_to_install, from its i-th entry on
RECURSIVE clone_plugins(_, _, _, _)
clone_plugins(m, i, dry, pw) ==
    IF i > Len(plugins_to_install) THEN m
    ELSE
    LET plugin_name == plugins_to_install[i].name
        plugin_path == plugins_dir \o "/" \o plugin_name
        m1 == IF exists(m.host, plugin_path)
              THEN say(m, plugin_name \o " is already installed.")
              ELSE say(run(say(m, "Cloning " \o plugin_name \o " repository..."),
                           CmdClone(<<"--depth=1">>, plugins_to_install[i].url, plugin_path),
                           <<"Failed to clone " \o plugin_name \o " repository.">>,
                           dry, pw, None),
                       plugin_name \o " cloning command issued.")
    IN  clone_plugins(m1, i + 1, dry, pw)

install_oh_my_zsh_plugins(m, dry, pw) ==
    LET m1 == say(m, "--- Installing Oh My Zsh Plugins ---")
        m2 == run(m1, CmdMkdir(plugins_dir), None, dry, None, None)
        m3 == clone_plugins(m2, 1, dry, pw)
    IN  say(m3, "Oh My Zsh plugin installation commands issued.")

install_fzf(m, dry, pw) ==
    LET m1 == say(m, "--- Installing fzf ---") IN
    IF exists(m1.host, fzf_dir)
    THEN say(m1, "fzf is already installed in ~/.fzf.")
    ELSE
    LET m2 == run(say(m1, "Cloning fzf repository..."),
                  CmdClone(<<"--depth", "1">>, "https://github.com/junegunn/fzf.git", fzf_dir),
                  <<"Failed to clone fzf repository.">>, dry, pw, None)
        m3 == run(say(m2, "Running fzf install script..."), CmdFzfInstall,
                  <<"Failed to run fzf install script.">>, dry, pw, None)
    IN  say(m3, "fzf installation command issued.")


\* lines 248-262: an optional bundle, stowed into the home directory
stow_optional(m, package, dry, pw) ==
    IF isdir(m.host, dotfiles_path \o "/" \o package)
    THEN run(say(m, "Stowing " \o package \o " configuration..."), CmdStow("~", package),
             <<"Failed to stow " \o package \o ".">>, dry, pw, <<dotfiles_path>>)
    ELSE say(m, "Skipping " \o package \o " stow: not found.")

\* lines 264-278
stow_astronvim(m, dry, pw) ==
    IF isdir(m.host, dotfiles_path \o "/astronvim")
    THEN LET m1 == say(m, "Stowing astronvim configuration...")
             m2 == IF ~exists(m1.host, nvim_config_target_dir)
                   THEN run(say(m1, "Creating directory: " \o nvim_config_target_dir),
                            CmdMkdir(nvim_config_target_dir), None, dry, None, None)
                   ELSE m1
         IN  run(m2, CmdStow("~/.config/nvim", "astronvim"), <<"Failed to stow astronvim.">>,
                 dry, pw, <<dotfiles_path>>)
    ELSE say(m, "Skipping astronvim stow: not found.")

setup_dotfiles_with_stow(m, dry, pw) ==
    LET m1 == install_stow(say(m, "--- Setting up Dotfiles with Stow ---"), dry, pw) IN
    IF ~isdir(m1.host, dotfiles_path)
    THEN print(m1, "stderr", <<"Error: Dotfiles directory not found at", dotfiles_path>>)
    ELSE
    LET m2 == say(m1, "Stowing dotfiles from " \o dotfiles_path \o "...")
        m3 == run(say(m2, "Stowing p10k configuration..."), CmdStow("~", "p10k"),
                  <<"Failed to stow p10k.">>, dry, pw, <<dotfiles_path>>)
        m4 == stow_optional(m3, "zshrc", dry, pw)
        m5 == stow_optional(m4, "git", dry, pw)
        m6 == stow_astronvim(m5, dry, pw)
    IN  say(m6, "Dotfiles stowage commands issued.")

install_nvim_and_astronvim(m, dry, pw) ==
    LET m1 == say(m, "--- Setting up Neovim ---")
        m2 == IF ~is_command_available(m1.host, "git")
              THEN run(say(m1, "Git not found. Installing Git..."), CmdApt("git"),
                       <<"Failed to install Git.">>, dry, pw, None)
              ELSE say(m1, "Git is already installed.")
        m3 == IF exists(m2.host, nvim_appimage_path) /\ access_X_OK(m2.host, nvim_appimage_path)
              THEN say(m2, "Neovim AppImage is already installed and executable in ~/software/nvim.")
              ELSE
              LET a == say(m2, "Downloading and installing latest stable Neovim AppImage from GitHub...")
                  b == run(a, CmdMkdir(software_dir), None, dry, None, None)
                  c == run(b, CmdNvimDownload, <<"Failed to download Neovim AppImage.">>,
                           dry, None, None)
                  d == run(c, CmdChmod, <<"Failed to make Neovim AppImage executable.">>,
                           dry, None, None)
              IN  say(d, "Neovim AppImage installed from GitHub release.")
    IN  say(m3, "Neovim and Git setup commands issued.")

\* a gate that is satisfied by any one font file
some_font_exists(h) ==
    isdir(h, font_dir) /\ \E i \in 1..Len(font_files) : exists(h, destination_path(font_files[i]))

\* lines 341-349: Check if all font files already exist
all_fonts_exist(h) ==
    IF isdir(h, font_dir)
    THEN \A i \in 1..Len(font_files) : exists(h, destination_path(font_files[i]))
    ELSE FALSE

\* a download loop that refreshes the cache after each file
RECURSIVE download_fonts_refreshing(_, _, _)
download_fonts_refreshing(m, i, dry) ==
    IF i > Len(font_files) THEN m
    ELSE download_fonts_refreshing(
             run(run(m, CmdFontDownload(font_files[i]), None, dry, None, None),
                 CmdFcCache, None, dry, None, None), i + 1, dry)

\* lines 360-368: the download loop, from the i-th font file on
RECURSIVE download_fonts(_, _, _)
download_fonts(m, i, dry) ==
    IF i > Len(font_files) THEN m
    ELSE
    LET font_file == font_files[i]
        m1 == say(m, "Downloading " \o Join(font_file, " ") \o "...")
        m2 == run(m1, CmdFontDownload(font_file),
                  <<"Failed to download " \o Join(font_file, " ") \o ".">>, dry, None, None)
    IN  download_fonts(m2, i + 1, dry)

install_nerd_font(m, dry, pw) ==
    LET m1 == say(m, "--- Installing MesloLGS NF Nerd Font ---") IN
    IF all_fonts_exist(m1.host)
    THEN say(m1, "MesloLGS NF fonts are already installed and cached.")
    ELSE
    LET m2 == run(say(m1, "Creating font directory..."), CmdMkdirFont, None, dry, None, None)
        m3 == download_fonts(m2, 1, dry)
        m4 == run(say(m3, "Updating font cache..."), CmdFcCache,
                  <<"Failed to update font cache.">>, dry, None, None)
    IN  say(m4, "MesloLGS NF font installation commands issued.")

\* lines 387-393 and 406-412: add the user to the docker group, then the notice
add_user_to_docker_group(m, notice, dry, pw) ==
    LET m1 == run(m, CmdUsermod, <<"Failed to add user to 'docker' group.">>, dry, pw, None)
    IN  IF ~dry THEN say(m1, notice) ELSE m1

install_docker(m, dry, pw) ==
    LET m1 == say(m, "--- Installing Docker ---") IN
    IF is_command_available(m1.host, "docker")
    THEN LET m2 == say(m1, "Docker is already installed.") IN
         IF in_docker_group(m2.host)
         THEN say(m2, "User is already in the 'docker' group.")
         ELSE add_user_to_docker_group(
                  say(m2, "User is not in the 'docker' group. Adding user to 'docker' group..."),
                  "IMPORTANT: User added to 'docker' group.", dry, pw)
    ELSE
    LET m2 == say(m1, "Downloading and executing Docker convenience script...")
        m3 == run(m2, CmdGetDocker, <<"Failed to download Docker convenience script.">>,
                  dry, None, None)
        m4 == run(m3, CmdShDocker, <<"Failed to execute Docker convenience script.">>,
                  dry, pw, None)
        m5 == run(m4, CmdRmDocker, <<"Failed to remove Docker convenience script.">>,
                  dry, None, None)
        m6 == add_user_to_docker_group(say(m5, "Adding current user to the 'docker' group..."),
                  "IMPORTANT: Docker installed and user added to 'docker' group.", dry, pw)
    IN  say(m6, "Docker installation command issued.")

\* lines 428-436: the loop over cargo_programs, from its i-th entry on
RECURSIVE install_cargo_programs(_, _, _)
install_cargo_programs(m, i, dry) ==
    IF i > Len(cargo_programs) THEN m
    ELSE
    LET package == cargo_programs[i].package
        command == cargo_programs[i].command
        m1 == say(m, "--- Installing " \o package \o " via cargo ---")
        m2 == IF is_command_available(m1.host, command)
              THEN say(m1, package \o " (command: " \o command \o ") is already installed.")
              ELSE say(run(say(m1, "Installing " \o package \o "..."), CmdCargo(package),
                           <<"Failed to install " \o package \o " via cargo.">>,
                           dry, None, None),
                       package \o " installation command issued.")
    IN  install_cargo_programs(m2, i + 1, dry)

\* lines 451-458: the loop over apt_programs, from its i-th entry on
RECURSIVE install_apt_programs(_, _, _, _)
install_apt_programs(m, i, dry, pw) ==
    IF i > Len(apt_programs) THEN m
    ELSE
    LET program == apt_programs[i]
        m1 == IF is_command_available(m.host, program)
              THEN say(m, program \o " is already installed.")
              ELSE say(run(say(m, "Installing " \o program \o "..."), CmdApt(program),
                           <<"Failed to install " \o program \o " via apt.">>, dry, pw, None),
                       program \o " installation command issued.")
    IN  install_apt_programs(m1, i + 1, dry, pw)

install_utility_programs(m, dry, pw) ==
    LET m1 == install_cargo_programs(m, 1, dry)
        m2 == say(m1, "--- Installing utility programs via apt ---")
    IN  install_apt_programs(m2, 1, dry, pw)

----------------------------------------------------------------------------
(* Hosts the script may be started on *)

Range(s) == { s[i] : i \in 1..Len(s) }

FontPaths == { Path(destination_path(f)) : f \in Range(font_files) }

\* the configuration bundles of the dotfiles-linking step, in the order it takes them
bundles == <<"p10k", "zshrc", "git", "astronvim">>

BundlePaths == { Path(dotfiles_path \o "/" \o b) : b \in Range(bundles) }

ProbeFacts ==
    { Cmd(c) : c \in { "rustc", "cargo", "zsh", "gemini", "stow", "git", "docker" } }
    \cup { Cmd(cargo_programs[i].command) : i \in 1..Len(cargo_programs) }
    \cup { Cmd(c) : c \in Range(apt_programs) }
    \cup { Path("~/.oh-my-zsh"), Path(fzf_dir), Path(NVM_SH), Path(p10k_dir),
           Path(nvim_appimage_path), Path(nvim_config_target_dir), Path(dotfiles_path),
           Path(font_dir) }
    \cup { Path(plugins_dir \o "/" \o plugins_to_install[i].name) :
             i \in 1..Len(plugins_to_install) }
    \cup BundlePaths
    \cup FontPaths
    \cup { <<"executable", nvim_appimage_path>>, <<"groups", "docker">>,
           <<"on_path", "~/.cargo/bin">>, <<"on_path", "nvm">> }

\* a file lies in a directory that exists
Consistent(h) ==
    /\ (FontPaths \cap h # {}) => Path(font_dir) \in h
    /\ (\E f \in h : f[1] = "path" /\ f \in { Path(p10k_dir) } \cup
            { Path(plugins_dir \o "/" \o plugins_to_install[i].name) :
                i \in 1..Len(plugins_to_install) }) => Path("~/.oh-my-zsh") \in h
    /\ (BundlePaths \cap h # {}) => Path(dotfiles_path) \in h
    /\ <<"executable", nvim_appimage_path>> \in h => Path(nvim_appimage_path) \in h

Fresh == { }
Provisioned == ProbeFacts

\* a fresh host, a provisioned one, and those one fact away from either
NearHosts ==
    { h \in { Fresh, Provisioned } \cup { Fresh \cup {f} : f \in ProbeFacts }
            \cup { Provisioned \ {f} : f \in ProbeFacts } : Consistent(h) }

\* every combination of the four font files, on an otherwise provisioned host
FontHosts ==
    { (Provisioned \ FontPaths) \cup fs : fs \in SUBSET FontPaths }
    \cup { Provisioned \ (FontPaths \cup { Path(font_dir) }), Fresh \cup { Path(font_dir) } }

\* every combination of the four bundles, on an otherwise provisioned host
BundleHosts == { (Provisioned \ BundlePaths) \cup bs : bs \in SUBSET BundlePaths }

----------------------------------------------------------------------------
(* The script as a state machine: one action per top-level block of __main__ *)

Oracles ==
    { o \in [ failAt : 0..MaxCalls, rc : FailCodes, so : Stdouts, se : Stderrs ] :
        o.failAt = 0 => o.rc = 1 }

\* the process state at the start of an action
Begin(o) ==
    [ host |-> host, issued |-> << >>, executed |-> executed, out |-> << >>, ret |-> None,
      captured |-> None, done |-> done, status |-> status, exit_code |-> exit_code, n |-> 0, o |-> o ]

\* the process state an action leaves; the sequence moves on if the process lives
Commit(m, next) ==
    /\ host' = m.host
    /\ pre_host' = host
    /\ issued' = m.issued
    /\ executed' = m.executed
    /\ out' = m.out
    /\ ret' = m.ret
    /\ captured' = m.captured
    /\ done' = m.done
    /\ status' = m.status
    /\ exit_code' = m.exit_code
    /\ pc' = IF m.status = "running" THEN next ELSE pc

TypeOK ==
    /\ status \in { "idle", "running", "exited", "finished" }
    /\ pc \in 1..12
    /\ dry_run \in BOOLEAN
    /\ runs_left \in 0..MaxRuns

InitCommon ==
    /\ status = "idle"
    /\ exit_code = -1
    /\ pc = 1
    /\ dry_run = FALSE
    /\ password = None
    /\ issued = << >>
    /\ executed = << >>
    /\ out = << >>
    /\ ret = None
    /\ captured = None
    /\ host0 = host
    /\ pre_host = host
    /\ done = { }
    /\ prev_ok = FALSE

Init ==
    /\ \/ host \in NearHosts \cup FontHosts \cup BundleHosts /\ env_shell = Chars("/bin/bash")
             /\ user_secret = <<"hunter2">>
       \/ host \in { Fresh, Provisioned } /\ env_shell \in ShellValues
             /\ user_secret \in Secrets
    /\ runs_left = 0
    /\ InitCommon

\* lines 465-486: parse the flag, read the credential, the test call of run()
Start ==
    /\ \/ status = "idle" /\ runs_left' = runs_left
       \/ status \in { "exited", "finished" } /\ runs_left > 0 /\ runs_left' = runs_left - 1
    /\ prev_ok' = (status = "finished" /\ ~dry_run)
    /\ \E d \in BOOLEAN, eof \in BOOLEAN, o \in Oracles :
         LET m0 == [Begin(o) EXCEPT !.status = "running", !.exit_code = -1,
                                    !.executed = << >>]
             m1 == say(m0, "Starting CLI setup script...")
         IN  /\ dry_run' = d
             /\ IF ~d /\ eof
                THEN /\ password' = None
                     /\ Commit(sys_exit(print(m1, "stderr", <<"Password input cancelled.">>), 1), 1)
                ELSE /\ password' = IF d THEN None ELSE user_secret
                     /\ Commit(say(run(say(m1, "--- Testing run function ---"), CmdHello,
                                       None, d, password', None),
                                   "--- End testing run function ---"), 1)
    /\ UNCHANGED <<env_shell, user_secret, host0>>

Running(k) == status = "running" /\ pc = k

Frame == UNCHANGED <<env_shell, user_secret, runs_left, dry_run, password, host0, prev_ok>>

InstallRust ==
    /\ Running(1)
    /\ \E o \in Oracles : Commit(install_rust(Begin(o), dry_run, password), 2)
    /\ Frame

SetupOhMyZsh ==
    /\ Running(2)
    /\ \E o \in Oracles : Commit(setup_oh_my_zsh(Begin(o), env_shell, dry_run, password), 3)
    /\ Frame

InstallOhMyZshPlugins ==
    /\ Running(3)
    /\ \E o \in Oracles : Commit(install_oh_my_zsh_plugins(Begin(o), dry_run, password), 4)
    /\ Frame

InstallFzf ==
    /\ Running(4)
    /\ \E o \in Oracles : Commit(install_fzf(Begin(o), dry_run, password), 5)
    /\ Frame

InstallGeminiCli ==
    /\ Running(5)
    /\ \E o \in Oracles : Commit(install_gemini_cli(Begin(o), dry_run, password), 6)
    /\ Frame

InstallPowerlevel10k ==
    /\ Running(6)
    /\ \E o \in Oracles : Commit(install_powerlevel10k(Begin(o), dry_run, password), 7)
    /\ Frame

InstallNvimAndAstronvim ==
    /\ Running(7)
    /\ \E o \in Oracles : Commit(install_nvim_and_astronvim(Begin(o), dry_run, password), 8)
    /\ Frame

SetupDotfilesWithStow ==
    /\ Running(8)
    /\ \E o \in Oracles : Commit(setup_dotfiles_with_stow(Begin(o), dry_run, password), 9)
    /\ Frame

InstallNerdFont ==
    /\ Running(9)
    /\ \E o \in Oracles : Commit(install_nerd_font(Begin(o), dry_run, password), 10)
    /\ Frame

InstallUtilityPrograms ==
    /\ Running(10)
    /\ \E o \in Oracles : Commit(install_utility_programs(Begin(o), dry_run, password), 11)
    /\ Frame

InstallDocker ==
    /\ Running(11)
    /\ \E o \in Oracles : Commit(install_docker(Begin(o), dry_run, password), 12)
    /\ Frame

\* lines 500-503: the end of the script; the interpreter exits with status 0
Finish ==
    /\ Running(12)
    /\ LET m1 == say(Begin([failAt |-> 0, rc |-> 1, so |-> << >>, se |-> << >>]),
                     "CLI setup script finished.")
           m2 == IF dry_run
                 THEN say(m1, "NOTE: This was a dry run. No changes were made to your system.")
                 ELSE m1
       IN  Commit([m2 EXCEPT !.status = "finished", !.exit_code = 0], 12)
    /\ Frame

Next ==
    \/ Start
    \/ InstallRust
    \/ SetupOhMyZsh
    \/ InstallOhMyZshPlugins
    \/ InstallFzf
    \/ InstallGeminiCli
    \/ InstallPowerlevel10k
    \/ InstallNvimAndAstronvim
    \/ SetupDotfilesWithStow
    \/ InstallNerdFont
    \/ InstallUtilityPrograms
    \/ InstallDocker
    \/ Finish

Spec == Init /\ [][Next]_vars

\* the operator runs the script again after it has ended, up to MaxRuns runs
InitRerun ==
    /\ host \in { Fresh, Fresh \cup { <<"on_path", "~/.cargo/bin">>, <<"on_path", "nvm">> } }
    /\ env_shell = Chars("/bin/bash")
    /\ user_secret = <<"hunter2">>
    /\ runs_left = MaxRuns - 1
    /\ InitCommon

SpecRerun == InitRerun /\ [][Next]_vars

----------------------------------------------------------------------------
(* Properties *)

Lines(fd) == { out[i].text : i \in { j \in 1..Len(out) : out[j].fd = fd } }

DryRunLine(command) ==
    \E t \in Lines("stdout") : StartsWith(t, <<"[Dry Run] Would execute:">> \o command)

\* C1: in a dry run no command is executed and nothing on the host changes: every
\* command passed to run() is only printed, with its working directory, and the
\* process is never terminated, whatever the host looks like.
Thm_C1 ==
    (dry_run /\ status # "idle") =>
        /\ executed = << >>
        /\ host = host0
        /\ done = { }
        /\ status \in { "running", "finished" }
        /\ exit_code \in { -1, 0 }
        /\ \A i \in 1..Len(issued) : DryRunLine(issued[i])
        /\ Cardinality({ j \in 1..Len(out) :
                           StartsWith(out[j].text, <<"[Dry Run] Would execute:">>) })
             = Len(issued)

\* a dry run on a fresh host has gone through all eleven steps and changed nothing
Witness_C1 ==
    dry_run /\ status = "finished" /\ host0 = Fresh /\ host = Fresh /\ executed = << >>

\* C2: when a command run through run() exits non-zero, the process ends with
\* exit status 1: the failing command is the last one executed, the failure report
\* is the last thing printed, and from then on nothing runs and nothing changes.
Inv_C2 ==
    \A i \in 1..Len(executed) :
        executed[i].rc # 0 =>
            /\ i = Len(executed)
            /\ status = "exited"
            /\ exit_code = 1
            /\ out # << >> /\ Last(out).fd = "stderr"

Thm_C2 ==
    /\ []Inv_C2
    /\ [][status = "exited" =>
            /\ status' = "exited" /\ exit_code' = exit_code /\ pc' = pc
            /\ executed' = executed /\ host' = host]_vars

\* a command of the fourth step exited with status 100 after others had succeeded
Witness_C2 ==
    /\ status = "exited" /\ exit_code = 1 /\ pc = 4
    /\ Len(executed) >= 3 /\ Last(executed).rc = 100
    /\ Last(executed).cmd[1] = "git"


\* commands that acquire or install something (not the test call of __main__, not
\* the creation of a directory)
IsAcquisition(command) == command # CmdHello /\ command[1] # "mkdir"

\* C3: a real run that follows a real run which reached the end, on a host nothing
\* else has touched, finds everything installed and issues no acquisition command.
CE_C3 ==
    (prev_ok /\ ~dry_run /\ status \in { "running", "exited", "finished" }) =>
        \A i \in 1..Len(issued) : ~IsAcquisition(issued[i])

\* C4: nothing the script prints contains the credential.
CE_C4 ==
    Truthy(password) => \A i \in 1..Len(out) : ~Contains(out[i].text, password)

\* C5: every program of an executed command line that asks for the credential reads
\* exactly the credential and a newline on its standard input, and a command line
\* without such a program is given nothing.
CE_C5 ==
    \A i \in 1..Len(executed) :
        LET started == ShellStdin(executed[i].cmd, executed[i].input) IN
        IF \E s \in started : AsksCredential(s.argv)
        THEN Truthy(password) =>
                 \A s \in started :
                     AsksCredential(s.argv) => s.stdin = password \o <<"\n">>
        ELSE executed[i].input = None

\* C6 as stated: after a command that wrote something has exited 0, run() has
\* returned its captured standard output.
CE_C6 ==
    (captured # None /\ captured # << >> /\ status # "exited") => ret = captured

\* C6 as amended: after a command has exited 0, run() has returned None, and has
\* printed the captured standard output, stripped, exactly when it is not empty.
Thm_C6 ==
    (captured # None /\ status # "exited") =>
        /\ ret = None
        /\ captured # << >> => Strip(captured) \in Lines("stdout")
        /\ captured = << >> => << >> \notin Lines("stdout")
        /\ captured \notin Lines("stdout") \cup Lines("stderr")

\* a command printed " ok\n": the script printed "ok" and run() returned None
Witness_C6 ==
    /\ captured = <<" ", "ok", "\n">> /\ status = "running" /\ ~dry_run
    /\ executed # << >> /\ Last(executed).rc = 0
    /\ ret = None /\ <<"ok">> \in Lines("stdout")


Said(text) == <<text>> \in Lines("stdout")

FontDownloads == [ i \in 1..Len(font_files) |-> CmdFontDownload(font_files[i]) ]

\* the last action was the font step and it ran to its end
FontStepDone == status = "running" /\ pc = 10

\* C7: when the font step runs for real with the font directory absent and every
\* command succeeds, its downloads and cache refreshes are the four downloads, one
\* per font file in list order, and then one cache refresh; all of them were
\* executed, in that order, as the last commands of the run so far.  (The step
\* creates the directory with mkdir -p before the first download.)
Thm_C7 ==
    (FontStepDone /\ ~dry_run /\ ~isdir(pre_host, font_dir)) =>
        /\ SelectSeq(issued, LAMBDA c : c \in Range(FontDownloads) \cup { CmdFcCache })
             = FontDownloads \o <<CmdFcCache>>
        /\ issued = <<CmdMkdirFont>> \o FontDownloads \o <<CmdFcCache>>
        /\ Len(executed) >= Len(issued)
        /\ \A i \in 1..Len(issued) :
               LET e == executed[Len(executed) - Len(issued) + i]
               IN  e.cmd = issued[i] /\ e.rc = 0

Witness_C7 ==
    /\ FontStepDone /\ ~dry_run /\ ~isdir(pre_host, font_dir)
    /\ Len(issued) = 6 /\ Last(issued) = CmdFcCache
    /\ FontPaths \subseteq host /\ <<"cached", "fonts">> \in host

\* C8: the gate of the font step is all-or-nothing.  With the directory and all
\* four files present the step issues no command and says the fonts are installed;
\* with the directory or any one file missing, a step that runs to its end has
\* issued the download of all four files.
Thm_C8 ==
    FontStepDone =>
        IF isdir(pre_host, font_dir) /\ FontPaths \subseteq pre_host
        THEN /\ issued = << >>
             /\ Said("MesloLGS NF fonts are already installed and cached.")
        ELSE /\ Range(FontDownloads) \subseteq Range(issued)
             /\ ~Said("MesloLGS NF fonts are already installed and cached.")

\* three of the four files were there, and all four were downloaded
Witness_C8 ==
    /\ FontStepDone /\ ~dry_run
    /\ Cardinality(FontPaths \cap pre_host) = 3
    /\ Range(FontDownloads) \subseteq Range(issued)
    /\ FontPaths \subseteq host

\* the last action was the shell-setup step
ShellStepDone == status = "running" /\ pc = 3
ShellStepFailed == status = "exited" /\ pc = 2

NeedsShellChange ==
    env_shell = None \/ env_shell = << >> \/ ~EndsWith(env_shell, <<"z", "s", "h">>)

ShellChangeExecuted ==
    \E i \in 1..Len(executed) : executed[i].cmd = CmdChsh /\ executed[i].rc = 0

\* C9: the shell-setup step issues chsh exactly when SHELL is unset, empty or does
\* not end in "zsh", and prints the log-out notice only after chsh was really
\* executed.
Thm_C9 ==
    /\ ShellStepDone => (CmdChsh \in Range(issued) <=> NeedsShellChange)
    /\ (ShellStepDone \/ ShellStepFailed) =>
          /\ CmdChsh \in Range(issued) => NeedsShellChange
          /\ Said("IMPORTANT: Zsh has been set as your default shell.") =>
                 ~dry_run /\ ShellChangeExecuted /\ Last(issued) = CmdChsh

\* SHELL names another program whose name contains zsh: chsh ran, the notice came
Witness_C9 ==
    /\ ShellStepDone /\ ~dry_run /\ env_shell = Chars("/bin/zsh5")
    /\ ShellChangeExecuted
    /\ Said("IMPORTANT: Zsh has been set as your default shell.")

\* what each probed step says when it skips, the facts its probe reads, and the
\* acquisition and post-install commands of the step
ProbedSteps ==
    { [said |-> "fzf is already installed in ~/.fzf.", facts |-> { Path(fzf_dir) },
       commands |-> { CmdClone(<<"--depth", "1">>, "https://github.com/junegunn/fzf.git",
                               fzf_dir), CmdFzfInstall }],
      [said |-> "MesloLGS NF fonts are already installed and cached.",
       facts |-> { Path(font_dir) },
       commands |-> Range(FontDownloads) \cup { CmdFcCache }],
      [said |-> "Rust is already installed.",
       facts |-> { Cmd("rustc"), <<"cargobin", "rustc">> },
       commands |-> { CmdRustup }],
      [said |-> "Powerlevel10k is already installed.", facts |-> { Path(p10k_dir) },
       commands |-> { CmdClone(<<"--depth=1">>,
                               "https://github.com/romkatv/powerlevel10k.git", p10k_dir) }] }

\* C10: whenever a step is skipped because its probe finds the tool, on a host that
\* did not have it before the first run, every acquisition and post-install command
\* of that step has exited 0 in some run.
CE_C10 ==
    \A s \in ProbedSteps :
        (Said(s.said) /\ s.facts \cap host0 = { }) => s.commands \subseteq done


\* the last action was the dotfiles-linking step and it ran to its end
DotfilesStepDone == status = "running" /\ pc = 9

\* the symlink-farm command of a bundle
StowCommand(b) == CmdStow(IF b = "astronvim" THEN "~/.config/nvim" ELSE "~", b)

\* C11: a dotfiles-linking step that runs to its end has issued the stow command
\* of a bundle exactly when the source directory of that bundle exists under the
\* dotfiles directory, for each of p10k, zshrc, git and astronvim.
CE_C11 ==
    (DotfilesStepDone /\ isdir(pre_host, dotfiles_path)) =>
        \A b \in Range(bundles) :
            StowCommand(b) \in Range(issued) <=> isdir(pre_host, dotfiles_path \o "/" \o b)


\* the last action was the container-runtime step, ended or failed
DockerStepDone == status = "running" /\ pc = 12 /\ out # << >>
DockerStepFailed == status = "exited" /\ pc = 11

\* C12: in a real run the container-runtime step issues usermod -aG docker only
\* when the user is not yet in the docker group, whether or not the docker command
\* was there when the step began.
CE_C12 ==
    ((DockerStepDone \/ DockerStepFailed) /\ ~dry_run) =>
        (CmdUsermod \in Range(issued) => ~in_docker_group(pre_host))


\* neither rustc nor cargo can be found on the search path the script starts with
RustAbsentAtStart ==
    ~is_command_available(host0, "rustc") /\ ~is_command_available(host0, "cargo")

\* C13: in a real run on a host that started without rustc and cargo, whose search
\* path the script never changes, no step issues a command that invokes cargo, and
\* so no command ends with "command not found" (status 127).
CE_C13 ==
    (RustAbsentAtStart /\ ~dry_run /\ status # "idle") =>
        /\ \A i \in 1..Len(issued) : issued[i][1] # "cargo"
        /\ \A i \in 1..Len(executed) : executed[i].rc # 127

====
